---- MODULE Spec2Model ----
(***************************************************************************)
(* Model of tradingagents/dataflows/alpha_vantage_common.py: the retry     *)
(* controller (_make_api_request), the transport layer                     *)
(* (_make_single_api_request) and the date-range filter                    *)
(* (_filter_csv_by_date_range).                                            *)
(*                                                                         *)
(* Text is modelled as a tuple of one-character strings, so that           *)
(* str.lower() and the substring test `in` are computed, not assumed.      *)
(* Time is counted in ticks: one time unit (second) is TicksPerUnit ticks, *)
(* chosen so that 10% of every backoff delay and every jitter step is a    *)
(* whole number of ticks.                                                  *)
(***************************************************************************)
EXTENDS Integers, Sequences, FiniteSets, TLC

VARIABLES
    env_api_key,            \* os.environ["ALPHA_VANTAGE_API_KEY"] (None when unset)
    _current_entitlement,   \* module global read through globals().get
    callers,                \* the calls of _make_api_request of this run
    pc,                     \* per call: position in _make_api_request
    params,                 \* per call: the caller's params dict
    attempt,                \* per call: loop variable of `for attempt in range(...)`
    api_params,             \* per call: params of the last requests.get
    gets,                   \* per call: number of requests.get issued
    response,               \* per call: last HTTP response received
    exc,                    \* per call: exception raised by the last attempt
    delay,                  \* per call: argument of the pending time.sleep
    sleeps,                 \* per call: the delays slept so far, in order
    result,                 \* per call: what the call returned or raised
    transport_faults,       \* per call: attempts so far that raised an OSError
    cancel,                 \* per call: the caller has signalled cancellation
    csv_data,               \* argument of _filter_csv_by_date_range
    start_date,             \* argument of _filter_csv_by_date_range
    end_date,               \* argument of _filter_csv_by_date_range
    filter_pc,              \* position in _filter_csv_by_date_range
    filtered_index,         \* filtered_df.index (row labels kept by the mask)
    filter_result           \* what _filter_csv_by_date_range returned or raised

call_vars == <<env_api_key, _current_entitlement, callers, pc, params, attempt,
               api_params, gets, response, exc, delay, sleeps, result,
               transport_faults, cancel>>
filter_vars == <<csv_data, start_date, end_date, filter_pc, filtered_index,
                 filter_result>>
vars == <<call_vars, filter_vars>>

-----------------------------------------------------------------------------
(* Bounds of the model *)

JitterSteps == 2        \* random.uniform(0, x) is drawn from JitterSteps+1 points
MaxRows == 3            \* data rows of a CSV table
MaxDay == 3             \* calendar days 2024-01-01 .. 2024-01-0<MaxDay>

-----------------------------------------------------------------------------
(* Python values *)

None == "<None>"
Truthy(v) == v # None /\ v # ""

Min(a, b) == IF a <= b THEN a ELSE b

RECURSIVE Pow2(_)
Pow2(n) == IF n = 0 THEN 1 ELSE 2 * Pow2(n - 1)

(* str.lower() on the characters that occur in the model *)
LowerChar(ch) ==
    CASE ch = "R" -> "r"
      [] ch = "L" -> "l"
      [] ch = "A" -> "a"
      [] ch = "P" -> "p"
      [] ch = "I" -> "i"
      [] ch = "K" -> "k"
      [] OTHER -> ch

Lower(s) == [i \in 1..Len(s) |-> LowerChar(s[i])]

(* needle in s, for str *)
IsSubstring(needle, s) ==
    \E i \in 0..(Len(s) - Len(needle)) :
        \A j \in 1..Len(needle) : s[i + j] = needle[j]

(* dict.update / dict.pop / dict.get *)
DictUpdate(d, e) ==
    [k \in (DOMAIN d) \cup (DOMAIN e) |-> IF k \in DOMAIN e THEN e[k] ELSE d[k]]
DictPop(d, key) == [k \in (DOMAIN d) \ {key} |-> d[k]]
DictGet(d, key) == IF key \in DOMAIN d THEN d[key] ELSE None

-----------------------------------------------------------------------------
(* Exception classes and isinstance *)

(* Base classes of the exception classes that can arise; requests'         *)
(* RequestException derives from IOError, which is OSError.                *)
Bases(cls) ==
    CASE cls = "requests.ConnectionError" -> {"requests.RequestException"}
      [] cls = "requests.Timeout" -> {"requests.RequestException"}
      [] cls = "requests.HTTPError" -> {"requests.RequestException"}
      [] cls = "requests.RequestException" -> {"OSError"}
      [] cls = "OSError" -> {"Exception"}
      [] cls = "AlphaVantageRateLimitError" -> {"Exception"}
      [] cls = "json.JSONDecodeError" -> {"ValueError"}
      [] cls = "ValueError" -> {"Exception"}
      [] cls = "TypeError" -> {"Exception"}
      [] cls = "AttributeError" -> {"Exception"}
      [] OTHER -> {}

RECURSIVE Mro(_)
Mro(cls) == {cls} \cup UNION {Mro(b) : b \in Bases(cls)}

IsInstance(cls, classes) == Mro(cls) \cap classes # {}

-----------------------------------------------------------------------------
(* Program constants of _make_api_request *)

max_retries_plus_one == 3 + 1
max_retries == 3
base_delay == 2
delay_cap == 60

TicksPerUnit == 10 * JitterSteps

-----------------------------------------------------------------------------
(* Response bodies.  A body is text; json.loads either decodes it to a     *)
(* Python value (doc) or raises json.JSONDecodeError.                      *)

NoInfo == [type |-> "absent", text |-> <<>>]
InfoStr(t) == [type |-> "str", text |-> t]
InfoOther(ty) == [type |-> ty, text |-> <<>>]

PyDict(keys, info) == [type |-> "dict", keys |-> keys, info |-> info, elems |-> {}, text |-> <<>>]
PyList(elems) == [type |-> "list", keys |-> {}, info |-> NoInfo, elems |-> elems, text |-> <<>>]
PyStr(t) == [type |-> "str", keys |-> {}, info |-> NoInfo, elems |-> {}, text |-> t]
PyScalar(ty) == [type |-> ty, keys |-> {}, info |-> NoInfo, elems |-> {}, text |-> <<>>]

JsonBody(doc) == [is_json |-> TRUE, doc |-> doc]
CsvBody == [is_json |-> FALSE, doc |-> PyScalar("undecodable")]
NoBody == [is_json |-> FALSE, doc |-> PyScalar("nobody")]

RATE_LIMIT == <<"r", "a", "t", "e", " ", "l", "i", "m", "i", "t">>
API_KEY == <<"a", "p", "i", " ", "k", "e", "y">>
INFORMATION == <<"I", "n", "f", "o", "r", "m", "a", "t", "i", "o", "n">>

(* Texts of the "Information" field *)
InfoMessages ==
    { <<"R", "a", "t", "e", " ", "L", "i", "m", "i", "t">>,
      <<"x", " ", "r", "a", "t", "e", " ", "l", "i", "m", "i", "t">>,
      <<"A", "P", "I", " ", "K", "e", "y">>,
      <<"r", "a", "t", "e", "l", "i", "m", "i", "t">>,
      <<"a", "p", "i", "k", "e", "y">>,
      <<"h", "i">>,
      <<>> }

JsonDocs ==
    { PyDict({}, NoInfo), PyDict({"Note"}, NoInfo) }
    \cup { PyDict({"Information"}, InfoStr(m)) : m \in InfoMessages }
    \cup { PyDict({"Information"}, InfoOther("NoneType")),
           PyDict({"Information"}, InfoOther("int")) }
    \cup { PyList({}), PyList({"Information"}) }
    \cup { PyStr(INFORMATION), PyStr(<<"h", "i">>) }
    \cup { PyScalar("int"), PyScalar("bool"), PyScalar("NoneType") }

ResponseBodies == { JsonBody(d) : d \in JsonDocs } \cup { CsvBody }

Statuses == {200, 304, 429, 503}

(* What requests.get can do: raise, or deliver a response *)
NetRaise(cls) == [kind |-> "raise", cls |-> cls, status |-> 0, body |-> NoBody]
NetResponse(st, b) == [kind |-> "response", cls |-> "none", status |-> st, body |-> b]
NoResponse == [kind |-> "none", cls |-> "none", status |-> 0, body |-> NoBody]

NetworkOutcomes ==
    { NetRaise(cls) : cls \in {"requests.ConnectionError", "requests.Timeout", "OSError"} }
    \cup { NetResponse(st, b) : st \in Statuses, b \in ResponseBodies }

-----------------------------------------------------------------------------
(* Outcome of a function: it returns a value or raises an exception *)

Return(v) == [kind |-> "return", value |-> v, exc |-> "none"]
Raise(cls) == [kind |-> "raise", value |-> NoBody, exc |-> cls]
NoResult == [kind |-> "none", value |-> NoBody, exc |-> "none"]

(* The value of a function that falls off its end *)
PyNone == [is_json |-> FALSE, doc |-> PyScalar("None")]

(* get_api_key raises ValueError: `if not api_key` *)
get_api_key_raises_only_unset(key) == key = None
get_api_key_raises(key) == ~Truthy(key)

(* response.raise_for_status(): HTTPError for 4xx and 5xx *)
raise_for_status(st) == 400 <= st /\ st < 600

(* json.loads(response_text) *)
json_loads(body) == IF body.is_json THEN "decoded" ELSE "json.JSONDecodeError"

(* `"Information" in response_json`: key of a dict, element of a list,     *)
(* substring of a str; TypeError for a value that is not iterable.         *)
ContainsInformation(doc) ==
    CASE doc.type = "dict" -> "Information" \in doc.keys
      [] doc.type = "list" -> "Information" \in doc.elems
      [] doc.type = "str" -> IsSubstring(INFORMATION, doc.text)
      [] OTHER -> FALSE

MentionsRateLimit(msg) ==
    IsSubstring(RATE_LIMIT, Lower(msg)) \/ IsSubstring(API_KEY, Lower(msg))

(* Lines 121-132: the classification of a response body *)
ClassifyBody(body) ==
    IF json_loads(body) = "json.JSONDecodeError" THEN Return(body)
    ELSE LET doc == body.doc IN
         IF doc.type \notin {"dict", "list", "str"} THEN Raise("TypeError")
         ELSE IF ~ContainsInformation(doc) THEN Return(body)
         ELSE IF doc.type # "dict" THEN Raise("TypeError")
         ELSE IF doc.info.type # "str" THEN Raise("AttributeError")
         ELSE IF MentionsRateLimit(doc.info.text)
              THEN Raise("AlphaVantageRateLimitError")
              ELSE Return(body)

(* Lines 115-132: what _make_single_api_request does with what requests.get did *)
SingleRequestOutcome(net) ==
    IF net.kind = "raise" THEN Raise(net.cls)
    ELSE IF raise_for_status(net.status) THEN Raise("requests.HTTPError")
    ELSE ClassifyBody(net.body)

(* Lines 97-113: the parameters sent *)
ResolveEntitlement_global_first(p, current_entitlement) ==
    LET got == DictGet(p, "entitlement")
        entitlement == IF Truthy(current_entitlement) THEN current_entitlement ELSE got
    IN  IF Truthy(entitlement) THEN DictUpdate(p, [entitlement |-> entitlement])
        ELSE IF "entitlement" \in DOMAIN p THEN DictPop(p, "entitlement")
        ELSE p
ResolveEntitlement(p, current_entitlement) ==
    LET got == DictGet(p, "entitlement")
        entitlement == IF Truthy(got) THEN got ELSE current_entitlement
    IN  IF Truthy(entitlement) THEN DictUpdate(p, [entitlement |-> entitlement])
        ELSE IF "entitlement" \in DOMAIN p THEN DictPop(p, "entitlement")
        ELSE p

(* Line 98: the parameters are composed in `params.copy()`, so the         *)
(* caller's dict is what it was.                                           *)
params_after_compose_in_place(p, composed) == composed
params_after_compose(p, composed) == p

ComposeParams(function_name, p, key, current_entitlement) ==
    ResolveEntitlement(
        DictUpdate(p, [function |-> function_name, apikey |-> key,
                       source |-> "trading_agents"]),
        current_entitlement)

-----------------------------------------------------------------------------
(* Lines 75-93: the except clauses of the retry loop *)

RetryableClasses_any_exception == {"Exception"}
RetryableClasses == {"requests.ConnectionError", "requests.Timeout", "OSError"}

IsTransportFault(cls) == IsInstance(cls, RetryableClasses)

(* Line 76: `if attempt == max_retries` *)
LastAttempt_off_by_one == max_retries + 1
LastAttempt == max_retries

(* delay = min(base_delay * (2 ** attempt), 60.0), in ticks *)
BackoffDelay_exponent_off_by_one(n) ==
    Min(base_delay * Pow2(n + 1) * TicksPerUnit, delay_cap * TicksPerUnit)
BackoffDelay(n) == Min(base_delay * Pow2(n) * TicksPerUnit, delay_cap * TicksPerUnit)

(* random.uniform(0, delay * 0.1) *)
JitterChoices_110_percent(d) == { (((d * 11) \div 10) * k) \div JitterSteps : k \in 0..JitterSteps }
JitterChoices(d) == { ((d \div 10) * k) \div JitterSteps : k \in 0..JitterSteps }

-----------------------------------------------------------------------------
(* Inputs *)

Calls == {1, 2}

ApiKeys == {None, "", "demo"}
Entitlements == {None, "", "realtime"}
ParamsSet ==
    { [symbol |-> "IBM"] }
    \cup { [symbol |-> "IBM", entitlement |-> e] : e \in {None, "", "delayed"} }
function_name == "TIME_SERIES_DAILY"

NoParams == [symbol |-> None]

-----------------------------------------------------------------------------
(* The retry controller, one call c at a time *)

(* Line 50, 66-72: the call is made and the loop is entered *)
Call(c) ==
    /\ c \in callers
    /\ pc[c] = "idle"
    /\ \E p \in ParamsSet : params' = [params EXCEPT ![c] = p]
    /\ pc' = [pc EXCEPT ![c] = "try"]
    /\ attempt' = [attempt EXCEPT ![c] = 0]
    /\ UNCHANGED <<env_api_key, _current_entitlement, callers, api_params, gets,
                   response, exc, delay, sleeps, result, transport_faults, cancel>>
    /\ UNCHANGED filter_vars

(* Lines 72-74 and 86: the loop body is entered at the call and again only *)
(* when time.sleep(delay) has returned.                                    *)
CanStartAttempt_while_sleeping(c) == pc[c] \in {"try", "sleeping"}
CanStartAttempt(c) == pc[c] = "try"

(* Lines 73-74, 97-115: an attempt composes its parameters and issues the  *)
(* GET; get_api_key's ValueError reaches `except Exception` and is raised. *)
SendRequest(c) ==
    /\ CanStartAttempt(c)
    /\ IF get_api_key_raises(env_api_key)
       THEN /\ exc' = [exc EXCEPT ![c] = "ValueError"]
            /\ result' = [result EXCEPT ![c] = Raise("ValueError")]
            /\ pc' = [pc EXCEPT ![c] = "done"]
            /\ UNCHANGED <<api_params, gets, params>>
       ELSE LET composed == ComposeParams(function_name, params[c], env_api_key,
                                          _current_entitlement) IN
            /\ api_params' = [api_params EXCEPT ![c] = composed]
            /\ params' = [params EXCEPT ![c] = params_after_compose(@, composed)]
            /\ gets' = [gets EXCEPT ![c] = @ + 1]
            /\ pc' = [pc EXCEPT ![c] = "inflight"]
            /\ UNCHANGED <<exc, result>>
    /\ UNCHANGED <<env_api_key, _current_entitlement, callers, attempt,
                   response, delay, sleeps, transport_faults, cancel>>
    /\ UNCHANGED filter_vars

(* Lines 115-132 and 74-93: requests.get ends in one of `outcomes`, the    *)
(* response is classified and the except clauses route the outcome.        *)
ReceiveResponseOf(c, outcomes) ==
    /\ pc[c] = "inflight"
    /\ \E net \in outcomes :
         LET out == SingleRequestOutcome(net) IN
         /\ response' = [response EXCEPT ![c] = net]
         /\ transport_faults' = [transport_faults EXCEPT ![c] =
                IF out.kind = "raise" /\ IsInstance(out.exc, {"OSError"})
                THEN @ + 1 ELSE @]
         /\ IF out.kind = "return"
            THEN /\ result' = [result EXCEPT ![c] = out]
                 /\ pc' = [pc EXCEPT ![c] = "done"]
                 /\ UNCHANGED <<exc, delay>>
            ELSE /\ exc' = [exc EXCEPT ![c] = out.exc]
                 /\ IF IsTransportFault(out.exc) /\ attempt[c] # LastAttempt
                    THEN /\ \E j \in JitterChoices(BackoffDelay(attempt[c])) :
                              delay' = [delay EXCEPT ![c] = BackoffDelay(attempt[c]) + j]
                         /\ pc' = [pc EXCEPT ![c] = "sleeping"]
                         /\ UNCHANGED result
                    ELSE /\ result' = [result EXCEPT ![c] = out]
                         /\ pc' = [pc EXCEPT ![c] = "done"]
                         /\ UNCHANGED delay
    /\ UNCHANGED <<env_api_key, _current_entitlement, callers, params, attempt,
                   api_params, gets, sleeps, cancel>>
    /\ UNCHANGED filter_vars

ReceiveResponse(c) == ReceiveResponseOf(c, NetworkOutcomes)

(* Line 72: `attempt` is a local variable of the call *)
NextAttempt_shared_counter(att, c) == [d \in DOMAIN att |-> att[d] + 1]
NextAttempt(att, c) == [att EXCEPT ![c] = @ + 1]

(* Line 86 and back to line 72: time.sleep(delay) ends, the loop goes on;  *)
(* a loop that runs out of iterations falls off the function's end.        *)
Wake(c) ==
    /\ pc[c] = "sleeping"
    /\ sleeps' = [sleeps EXCEPT ![c] = Append(@, delay[c])]
    /\ IF attempt[c] < max_retries
       THEN /\ attempt' = NextAttempt(attempt, c)
            /\ pc' = [pc EXCEPT ![c] = "try"]
            /\ UNCHANGED result
       ELSE /\ result' = [result EXCEPT ![c] = Return(PyNone)]
            /\ pc' = [pc EXCEPT ![c] = "done"]
            /\ UNCHANGED attempt
    /\ UNCHANGED <<env_api_key, _current_entitlement, callers, params,
                   api_params, gets, response, exc, delay, transport_faults, cancel>>
    /\ UNCHANGED filter_vars

-----------------------------------------------------------------------------
(* Specification of the retry controller: one call *)

FilterIdle ==
    /\ csv_data = [lines |-> <<>>, eol |-> FALSE]
    /\ start_date = ""
    /\ end_date = ""
    /\ filter_pc = "idle"
    /\ filtered_index = <<>>
    /\ filter_result = [kind |-> "none", exc |-> "none", text |-> [lines |-> <<>>, eol |-> FALSE]]

CallsIdle ==
    /\ pc = [c \in Calls |-> "idle"]
    /\ params = [c \in Calls |-> NoParams]
    /\ attempt = [c \in Calls |-> 0]
    /\ api_params = [c \in Calls |-> NoParams]
    /\ gets = [c \in Calls |-> 0]
    /\ response = [c \in Calls |-> NoResponse]
    /\ exc = [c \in Calls |-> "none"]
    /\ delay = [c \in Calls |-> 0]
    /\ sleeps = [c \in Calls |-> <<>>]
    /\ result = [c \in Calls |-> NoResult]
    /\ transport_faults = [c \in Calls |-> 0]
    /\ cancel = [c \in Calls |-> FALSE]

Init ==
    /\ env_api_key \in ApiKeys
    /\ _current_entitlement \in Entitlements
    /\ callers = {1}
    /\ CallsIdle
    /\ FilterIdle

Next ==
    \/ \E c \in Calls : Call(c)
    \/ \E c \in Calls : SendRequest(c)
    \/ \E c \in Calls : ReceiveResponse(c)
    \/ \E c \in Calls : Wake(c)

Spec == Init /\ [][Next]_vars

-----------------------------------------------------------------------------
(* Vocabulary of the properties *)

Done(c) == pc[c] = "done"

(* The outcome of the last attempt whose requests.get has ended *)
LastOutcome(c) == SingleRequestOutcome(response[c])

IsHttpSuccess(resp) == resp.kind = "response" /\ resp.status \in 200..299

(* Two characters that differ at most in case *)
CasePairs == { <<"R", "r">>, <<"L", "l">>, <<"A", "a">>, <<"P", "p">>,
               <<"I", "i">>, <<"K", "k">> }
SameLetter(a, b) == a = b \/ <<a, b>> \in CasePairs \/ <<b, a>> \in CasePairs
MentionsIgnoringCase(needle, msg) ==
    \E i \in 0..(Len(msg) - Len(needle)) :
        \A j \in 1..Len(needle) : SameLetter(msg[i + j], needle[j])

(* A JSON object whose Information field is text that mentions            *)
(* "rate limit" or "api key"                                               *)
RateLimitShapedBody(body) ==
    /\ body.is_json
    /\ body.doc.type = "dict"
    /\ "Information" \in body.doc.keys
    /\ body.doc.info.type = "str"
    /\ \/ MentionsIgnoringCase(RATE_LIMIT, body.doc.info.text)
       \/ MentionsIgnoringCase(API_KEY, body.doc.info.text)

RateLimitShaped(resp) == IsHttpSuccess(resp) /\ RateLimitShapedBody(resp.body)

-----------------------------------------------------------------------------
(* C1: a call makes at most 4 network attempts; when the 4th attempt ends  *)
(* in a transport fault (the first three did, or there would be no 4th),   *)
(* the call has terminated by raising that very fault, after exactly 4     *)
(* attempts and 3 sleeps.                                                  *)
C1_AtMostFourAttempts ==
    \A c \in callers :
        /\ gets[c] <= 4
        /\ ( /\ gets[c] = 4
             /\ pc[c] # "inflight"
             /\ LastOutcome(c).kind = "raise"
             /\ IsTransportFault(LastOutcome(c).exc) )
           => /\ Done(c)
              /\ result[c] = Raise(LastOutcome(c).exc)
              /\ Len(sleeps[c]) = 3

C1_Witness ==
    \E c \in callers :
        /\ Done(c) /\ gets[c] = 4
        /\ result[c] = Raise("requests.Timeout")
        /\ response[c] = NetRaise("requests.Timeout")

(* C2: a step that receives a rate-limit-shaped response, on any attempt,  *)
(* ends the call with AlphaVantageRateLimitError without starting a sleep; *)
(* and a call that has ended makes no further attempt and sleeps no more.  *)
C2_RateLimitTerminatesImmediately ==
    [][\A c \in callers :
         /\ ( pc[c] = "inflight" /\ pc'[c] # "inflight"
              /\ RateLimitShaped(response'[c]) )
            => /\ pc'[c] = "done"
               /\ result'[c] = Raise("AlphaVantageRateLimitError")
               /\ sleeps'[c] = sleeps[c]
               /\ gets'[c] = gets[c]
         /\ pc[c] = "done"
            => /\ pc'[c] = "done"
               /\ result'[c] = result[c]
               /\ sleeps'[c] = sleeps[c]
               /\ gets'[c] = gets[c]
      ]_vars

C2_Witness ==
    \E c \in callers :
        /\ Done(c)
        /\ result[c] = Raise("AlphaVantageRateLimitError")
        /\ gets[c] = 2 /\ Len(sleeps[c]) = 1
        /\ response[c].body.doc.info.text = <<"A", "P", "I", " ", "K", "e", "y">>

(* C3: while ALPHA_VANTAGE_API_KEY is unset or empty, a call issues no GET *)
(* and never sleeps, and when it has ended it has raised the configuration *)
(* fault (ValueError).                                                     *)
C3_MissingKeyFailsBeforeNetwork ==
    \A c \in callers :
        env_api_key \in {None, ""}
        => /\ gets[c] = 0
           /\ sleeps[c] = <<>>
           /\ pc[c] \in {"idle", "try", "done"}
           /\ Done(c) => result[c] = Raise("ValueError")

C3_Witness ==
    \E c \in callers :
        env_api_key = "" /\ Done(c) /\ result[c] = Raise("ValueError") /\ gets[c] = 0

(* C4 (as claimed): a call that has ended returned a payload or raised one *)
(* of the configuration fault, the rate-limit fault, or a transport fault  *)
(* after 4 attempts.                                                       *)
C4_OnlyThreeFaultKinds ==
    \A c \in callers :
        Done(c)
        => \/ result[c].kind = "return" /\ result[c].value = response[c].body
           \/ result[c] = Raise("ValueError") /\ gets[c] = 0
           \/ result[c] = Raise("AlphaVantageRateLimitError")
           \/ /\ result[c].kind = "raise"
              /\ IsTransportFault(result[c].exc)
              /\ gets[c] = 4

(* C5 (as claimed): after an HTTP-success response whose body is not       *)
(* rate-limit-shaped, the call has returned the body text itself.          *)
C5_RawBodyReturned ==
    \A c \in callers :
        ( /\ pc[c] # "inflight"
          /\ IsHttpSuccess(response[c])
          /\ ~RateLimitShapedBody(response[c].body) )
        => /\ Done(c)
           /\ result[c] = Return(response[c].body)

(* C6: in the parameters of every GET, the entitlement is the descriptor's *)
(* when the descriptor gives a non-empty one, else the process-wide        *)
(* override when that is set, else the key is absent; an empty or null     *)
(* entitlement is never sent.                                              *)
SpecifiesEntitlement(p) ==
    "entitlement" \in DOMAIN p /\ p["entitlement"] \notin {None, ""}
OverrideSet == _current_entitlement \notin {None, ""}

C6_EntitlementResolution ==
    \A c \in callers :
        gets[c] > 0
        => LET p == params[c]
               sent == api_params[c]
           IN  /\ SpecifiesEntitlement(p)
                  => "entitlement" \in DOMAIN sent
                     /\ sent["entitlement"] = p["entitlement"]
               /\ (~SpecifiesEntitlement(p) /\ OverrideSet)
                  => "entitlement" \in DOMAIN sent
                     /\ sent["entitlement"] = _current_entitlement
               /\ (~SpecifiesEntitlement(p) /\ ~OverrideSet)
                  => "entitlement" \notin DOMAIN sent
               /\ "entitlement" \in DOMAIN sent
                  => sent["entitlement"] \notin {None, ""}

C6_Witness ==
    \E c \in callers :
        /\ gets[c] > 0
        /\ SpecifiesEntitlement(params[c]) /\ OverrideSet
        /\ api_params[c]["entitlement"] = "delayed"

C6_WitnessOmitted ==
    \E c \in callers :
        /\ gets[c] > 0
        /\ "entitlement" \in DOMAIN params[c] /\ params[c]["entitlement"] = ""
        /\ ~OverrideSet
        /\ "entitlement" \notin DOMAIN api_params[c]

(* C7 (as claimed): after a response with a non-2xx status the call is     *)
(* sleeping or retrying, and it has ended only if that was the 4th         *)
(* attempt, by raising the HTTP fault.                                     *)
C7_Non2xxIsTransportFault ==
    \A c \in callers :
        (response[c].kind = "response" /\ response[c].status \notin 200..299)
        => IF Done(c)
           THEN gets[c] = 4 /\ result[c] = Raise("requests.HTTPError")
           ELSE pc[c] \in {"sleeping", "try", "inflight"}

(* C8: the delays slept by a call, and the one it is about to sleep, are   *)
(* in non-decreasing order and none exceeds the cap of 60 time units.      *)
SleptAndPending(c) ==
    IF pc[c] = "sleeping" THEN Append(sleeps[c], delay[c]) ELSE sleeps[c]

C8_DelaysNonDecreasingAndCapped ==
    \A c \in callers :
        LET ds == SleptAndPending(c) IN
        /\ \A i \in 1..Len(ds) : ds[i] <= 60 * TicksPerUnit
        /\ \A i \in 1..(Len(ds) - 1) : ds[i] <= ds[i + 1]

(* Three sleeps, the first with the largest jitter, the second with none *)
C8_Witness ==
    \E c \in callers :
        /\ gets[c] = 4
        /\ Len(sleeps[c]) = 3
        /\ sleeps[c][1] = 22 * (TicksPerUnit \div 10)
        /\ sleeps[c][2] = 4 * TicksPerUnit

-----------------------------------------------------------------------------
(* The date-range filter.  CSV text is a sequence of lines, each a tuple   *)
(* of cell texts, and a flag telling whether the last line ends in a       *)
(* newline; "" is no line and no newline, "\n" is no line and a newline.   *)

CsvText(lines, eol) == [lines |-> lines, eol |-> eol]

Header == <<"timestamp", "close">>

DateTexts == <<"2024-01-01", "2024-01-02", "2024-01-03", "2024-01-04", "2024-01-05">>
Days == 1..MaxDay
NaT == 0
NaN == "<NaN>"

FirstCells == { DateTexts[d] : d \in Days } \cup { "", "abc" }
ValueCells == { "1.10", "1.5" }
DataLines == { <<t, v>> : t \in FirstCells, v \in ValueCells }

RECURSIVE SeqsUpTo(_, _)
SeqsUpTo(S, n) ==
    IF n = 0 THEN { <<>> }
    ELSE LET shorter == SeqsUpTo(S, n - 1) IN
         shorter \cup { Append(q, x) : q \in { r \in shorter : Len(r) = n - 1 }, x \in S }

CsvInputs ==
    { CsvText(<<>>, e) : e \in BOOLEAN }
    \cup { CsvText(<<Header>> \o rows, e) : rows \in SeqsUpTo(DataLines, MaxRows),
                                            e \in BOOLEAN }

(* `not csv_data or csv_data.strip() == ""` *)
IsBlank(text) == text.lines = <<>>

(* pd.read_csv: the first line names the columns; an empty cell is NaN;    *)
(* the numeric column is read as float64 (kept here in hundredths).        *)
ParseFloat(cell) ==
    CASE cell = "1.10" -> 110
      [] cell = "1.1" -> 110
      [] cell = "1.5" -> 150
      [] OTHER -> 0

read_csv(text) ==
    [ columns |-> text.lines[1],
      rows |-> [ i \in 1..(Len(text.lines) - 1) |->
                   [ index |-> i - 1,
                     first |-> IF text.lines[i + 1][1] = "" THEN NaN
                               ELSE text.lines[i + 1][1],
                     value |-> ParseFloat(text.lines[i + 1][2]) ] ] ]

(* pd.to_datetime of one value: NaN becomes NaT, a date text its day,      *)
(* any other text raises.                                                  *)
IsDateText(cell) == \E d \in 1..Len(DateTexts) : DateTexts[d] = cell

to_datetime_raises_nothing(cell) == FALSE
to_datetime_raises(cell) == cell # NaN /\ ~IsDateText(cell)

to_datetime(cell) ==
    IF IsDateText(cell)
    THEN CHOOSE d \in 1..Len(DateTexts) : DateTexts[d] = cell
    ELSE NaT

(* (df[date_col] >= start_dt) & (df[date_col] <= end_dt); NaT compares False *)
InRange_bounds_sorted(t, start_dt, end_dt) ==
    /\ t # NaT
    /\ t >= Min(start_dt, end_dt)
    /\ t <= (IF start_dt >= end_dt THEN start_dt ELSE end_dt)
InRange_end_exclusive(t, start_dt, end_dt) == t # NaT /\ t >= start_dt /\ t < end_dt
InRange(t, start_dt, end_dt) == t # NaT /\ t >= start_dt /\ t <= end_dt

(* DataFrame.to_csv(index=False): datetimes at midnight print as dates,    *)
(* floats by repr, every line ends in a newline.                           *)
FormatTimestamp(t) == IF t = NaT THEN "" ELSE DateTexts[t]
FormatFloat(x) ==
    CASE x = 110 -> "1.1"
      [] x = 150 -> "1.5"
      [] OTHER -> "0.0"

to_csv(columns, rows) ==
    CsvText(<<columns>> \o [ i \in 1..Len(rows) |->
                               << FormatTimestamp(rows[i].first),
                                  FormatFloat(rows[i].value) >> ],
            TRUE)

(* Lines 152-166: the body of the try statement *)
FilterOk(text, index) == [kind |-> "return", exc |-> "none", text |-> text, index |-> index]
FilterRaise(cls) == [kind |-> "raise", exc |-> cls, text |-> CsvText(<<>>, FALSE), index |-> <<>>]

TryFilter(text, start, end) ==
    LET df == read_csv(text) IN
    IF \E i \in 1..Len(df.rows) : to_datetime_raises(df.rows[i].first)
    THEN FilterRaise("ValueError")
    ELSE IF to_datetime_raises(start) \/ to_datetime_raises(end)
    THEN FilterRaise("ValueError")
    ELSE LET dated == [ i \in 1..Len(df.rows) |->
                          [df.rows[i] EXCEPT !.first = to_datetime(@)] ]
             start_dt == to_datetime(start)
             end_dt == to_datetime(end)
             filtered_df == SelectSeq(dated, LAMBDA r : InRange(r.first, start_dt, end_dt))
         IN  FilterOk(to_csv(df.columns, filtered_df),
                      [ i \in 1..Len(filtered_df) |-> filtered_df[i].index ])

(* Line 168: the classes caught by `except Exception` *)
FilterCaught == {"Exception"}

(* Lines 136-171 *)
_filter_csv_by_date_range_strips_blank(text, start, end) ==
    IF IsBlank(text) THEN FilterOk(CsvText(<<>>, FALSE), <<>>)
    ELSE LET out == TryFilter(text, start, end) IN
         IF out.kind = "raise" /\ IsInstance(out.exc, FilterCaught)
         THEN FilterOk(text, <<>>)
         ELSE out
_filter_csv_by_date_range(text, start, end) ==
    IF IsBlank(text) THEN FilterOk(text, <<>>)
    ELSE LET out == TryFilter(text, start, end) IN
         IF out.kind = "raise" /\ IsInstance(out.exc, FilterCaught)
         THEN FilterOk(text, <<>>)
         ELSE out

FilterCsv ==
    /\ filter_pc = "ready"
    /\ LET out == _filter_csv_by_date_range(csv_data, start_date, end_date) IN
       /\ filter_result' = [kind |-> out.kind, exc |-> out.exc, text |-> out.text]
       /\ filtered_index' = out.index
    /\ filter_pc' = "done"
    /\ UNCHANGED <<csv_data, start_date, end_date>>
    /\ UNCHANGED call_vars

(* Specification of the filter: one call on inputs drawn from the bounded sets *)
InitFilter ==
    /\ env_api_key = None
    /\ _current_entitlement = None
    /\ callers = {}
    /\ CallsIdle
    /\ csv_data \in CsvInputs
    /\ start_date \in { DateTexts[d] : d \in Days }
    /\ end_date \in { DateTexts[d] : d \in Days }
    /\ filter_pc = "ready"
    /\ filtered_index = <<>>
    /\ filter_result = [kind |-> "none", exc |-> "none", text |-> CsvText(<<>>, FALSE)]

NextFilter == FilterCsv

SpecFilter == InitFilter /\ [][NextFilter]_vars

-----------------------------------------------------------------------------
(* Vocabulary of the filter's properties *)

DataRows(text) == [ i \in 1..(Len(text.lines) - 1) |-> text.lines[i + 1] ]

(* Every first-column cell is a date text or is empty *)
ParseableTable(text) ==
    /\ ~IsBlank(text)
    /\ \A i \in 1..Len(DataRows(text)) :
         DataRows(text)[i][1] = "" \/ IsDateText(DataRows(text)[i][1])

HasUnparseableRow(text) ==
    /\ ~IsBlank(text)
    /\ \E i \in 1..Len(DataRows(text)) :
         DataRows(text)[i][1] # "" /\ ~IsDateText(DataRows(text)[i][1])

DayOf(cell) == CHOOSE d \in 1..Len(DateTexts) : DateTexts[d] = cell

(* The labels (0-based) of the rows dated within [start, end], ascending *)
RECURSIVE LabelsInRange(_, _, _, _)
LabelsInRange(rows, n, start, end) ==
    IF n = 0 THEN <<>>
    ELSE LET before == LabelsInRange(rows, n - 1, start, end)
             cell == rows[n][1]
         IN  IF /\ IsDateText(cell)
                /\ DayOf(start) <= DayOf(cell)
                /\ DayOf(cell) <= DayOf(end)
             THEN Append(before, n - 1)
             ELSE before

(* C9: on a parseable table the filter returns the header followed by      *)
(* exactly the rows whose timestamp t has start <= t <= end, each once, in *)
(* the order of the input.                                                 *)
C9_InclusiveRangeInOrder ==
    (filter_pc = "done" /\ ParseableTable(csv_data))
    => LET rows == DataRows(csv_data)
           kept == LabelsInRange(rows, Len(rows), start_date, end_date)
           out == filter_result.text
       IN  /\ filter_result.kind = "return"
           /\ filtered_index = kept
           /\ out.lines[1] = csv_data.lines[1]
           /\ Len(out.lines) = 1 + Len(kept)
           /\ \A k \in 1..Len(kept) :
                /\ out.lines[k + 1][1] = rows[kept[k] + 1][1]
                /\ ParseFloat(out.lines[k + 1][2]) = ParseFloat(rows[kept[k] + 1][2])

(* Rows on both boundary dates are kept, a row before, a row after and a   *)
(* duplicate of a boundary row are present, and the rows are not sorted.   *)
C9_Witness ==
    /\ filter_pc = "done"
    /\ start_date = DateTexts[2] /\ end_date = DateTexts[3]
    /\ Len(csv_data.lines) = 1 + MaxRows
    /\ csv_data.lines[2][1] = DateTexts[3]
    /\ csv_data.lines[3][1] = DateTexts[1]
    /\ csv_data.lines[4][1] = DateTexts[2]
    /\ filtered_index = <<0, 2>>

(* C10: when some row's first column is not a date, the filter returns its *)
(* input text itself, and it does not raise.                               *)
C10_FailOpenOnUnparseableRow ==
    (filter_pc = "done" /\ HasUnparseableRow(csv_data))
    => filter_result = [kind |-> "return", exc |-> "none", text |-> csv_data]

(* An unparseable row next to a parseable row outside the range, in a text *)
(* that serialisation would have changed (no final newline, "1.10")        *)
C10_Witness ==
    /\ filter_pc = "done"
    /\ start_date = DateTexts[2] /\ end_date = DateTexts[2]
    /\ Len(csv_data.lines) = 3
    /\ csv_data.lines[2] = <<DateTexts[1], "1.10">>
    /\ csv_data.lines[3][1] = "abc"
    /\ ~csv_data.eol
    /\ filter_result.text = csv_data

(* C11: on empty or all-whitespace input text the filter returns that very *)
(* text, whatever the date range.                                          *)
C11_BlankInputUnchanged ==
    (filter_pc = "done" /\ csv_data.lines = <<>>)
    => filter_result = [kind |-> "return", exc |-> "none", text |-> csv_data]

(* The input "\n" with a reversed date range *)
C11_Witness ==
    /\ filter_pc = "done"
    /\ csv_data = CsvText(<<>>, TRUE)
    /\ start_date = DateTexts[2] /\ end_date = DateTexts[1]
    /\ filter_result.text = CsvText(<<>>, TRUE)

-----------------------------------------------------------------------------
(* Cancellation.  _make_api_request(function_name, params) takes no        *)
(* cancellation or timeout argument, requests.get is called without a      *)
(* timeout and time.sleep(delay) runs its full time: a signal raised by    *)
(* the caller is seen by none of the steps of the call.                    *)

Cancel(c) ==
    /\ c \in callers
    /\ pc[c] \in {"try", "inflight", "sleeping"}
    /\ ~cancel[c]
    /\ cancel' = [cancel EXCEPT ![c] = TRUE]
    /\ UNCHANGED <<env_api_key, _current_entitlement, callers, pc, params, attempt,
                   api_params, gets, response, exc, delay, sleeps, result,
                   transport_faults>>
    /\ UNCHANGED filter_vars

(* A few outcomes of requests.get: a timeout, an HTTP error, a CSV payload *)
(* and a rate-limit notice                                                 *)
FewOutcomes ==
    { NetRaise("requests.Timeout"),
      NetResponse(503, CsvBody),
      NetResponse(200, CsvBody),
      NetResponse(200, JsonBody(PyDict({"Information"}, InfoStr(RATE_LIMIT)))) }

InitCancel ==
    /\ env_api_key = "demo"
    /\ _current_entitlement = None
    /\ callers = {1}
    /\ CallsIdle
    /\ FilterIdle

NextCancel ==
    \/ \E c \in Calls : Call(c)
    \/ \E c \in Calls : SendRequest(c)
    \/ \E c \in Calls : ReceiveResponseOf(c, FewOutcomes)
    \/ \E c \in Calls : Wake(c)
    \/ \E c \in Calls : Cancel(c)

SpecCancel == InitCancel /\ [][NextCancel]_vars

(* C12 (as claimed): once the caller has signalled cancellation, the       *)
(* pending network attempt or backoff sleep of the call ends by ending the *)
(* call with a cancellation fault, which is not a transport fault: no      *)
(* further attempt and no further sleep follows.                           *)
C12_CancellationAborts ==
    [][\A c \in callers :
         ( cancel[c] /\ pc[c] \in {"inflight", "sleeping"} /\ pc'[c] # pc[c] )
         => /\ pc'[c] = "done"
            /\ result'[c] = Raise("CancelledError")
            /\ ~IsTransportFault(result'[c].exc)
            /\ gets'[c] = gets[c]
      ]_vars

-----------------------------------------------------------------------------
(* C13: the n-th delay of a call, slept or about to be slept (before the   *)
(* attempt with 0-based index n, 1 <= n <= 3), is d + j with d = 2, 4, 8   *)
(* time units for n = 1, 2, 3 and 0 <= j <= d / 10; there are at most 3.   *)
ClaimedBaseDelay(n) ==
    CASE n = 1 -> 2 * TicksPerUnit
      [] n = 2 -> 4 * TicksPerUnit
      [] n = 3 -> 8 * TicksPerUnit
      [] OTHER -> 0 - 1

C13_DelayIsBackoffPlusJitter ==
    \A c \in callers :
        LET ds == SleptAndPending(c) IN
        /\ Len(ds) <= 3
        /\ \A n \in 1..Len(ds) :
             LET d == ClaimedBaseDelay(n) IN
             /\ d <= ds[n]
             /\ 10 * (ds[n] - d) <= d

(* Delays of 2 (no jitter), 4.2 and 8.8 (largest jitter) time units *)
C13_Witness ==
    \E c \in callers :
        /\ Len(sleeps[c]) = 3
        /\ sleeps[c][1] = 2 * TicksPerUnit
        /\ sleeps[c][3] = 88 * (TicksPerUnit \div 10)
        /\ sleeps[c][2] > 4 * TicksPerUnit /\ sleeps[c][2] < 44 * (TicksPerUnit \div 10)

-----------------------------------------------------------------------------
(* C14: a step that starts an attempt of a call starts exactly one, from   *)
(* the head of the loop (no attempt in flight, no sleep pending), when     *)
(* every earlier attempt has ended in a transport fault and the sleep      *)
(* after each of them has completed; while an attempt is in flight or a    *)
(* sleep is pending, the attempts started are one more than the sleeps     *)
(* completed.                                                              *)
C14_AttemptsStrictlySequential ==
    /\ [][\A c \in callers :
            gets'[c] # gets[c]
            => /\ gets'[c] = gets[c] + 1
               /\ pc[c] = "try" /\ pc'[c] = "inflight"
               /\ Len(sleeps[c]) = gets[c]
               /\ transport_faults[c] = gets[c]
               /\ gets[c] > 0 => ( /\ LastOutcome(c).kind = "raise"
                                    /\ IsInstance(LastOutcome(c).exc, {"OSError"}) )
         ]_vars
    /\ [](\A c \in Calls :
            pc[c] \in {"inflight", "sleeping"} => gets[c] = Len(sleeps[c]) + 1)

(* The third attempt in flight after two faults and two sleeps *)
C14_Witness ==
    \E c \in callers :
        /\ pc[c] = "inflight"
        /\ gets[c] = 3
        /\ Len(sleeps[c]) = 2
        /\ transport_faults[c] = 2

-----------------------------------------------------------------------------
(* Two calls running concurrently, each just entered, their steps          *)
(* interleaved in any order.                                               *)

InitConcurrent ==
    /\ env_api_key = "demo"
    /\ _current_entitlement = "realtime"
    /\ callers = Calls
    /\ pc = [c \in Calls |-> "try"]
    /\ params = [c \in Calls |-> IF c = 1 THEN [symbol |-> "IBM"]
                                 ELSE [symbol |-> "IBM", entitlement |-> "delayed"]]
    /\ attempt = [c \in Calls |-> 0]
    /\ api_params = [c \in Calls |-> NoParams]
    /\ gets = [c \in Calls |-> 0]
    /\ response = [c \in Calls |-> NoResponse]
    /\ exc = [c \in Calls |-> "none"]
    /\ delay = [c \in Calls |-> 0]
    /\ sleeps = [c \in Calls |-> <<>>]
    /\ result = [c \in Calls |-> NoResult]
    /\ transport_faults = [c \in Calls |-> 0]
    /\ cancel = [c \in Calls |-> FALSE]
    /\ FilterIdle

NextConcurrent ==
    \/ \E c \in Calls : SendRequest(c)
    \/ \E c \in Calls : ReceiveResponseOf(c, FewOutcomes)
    \/ \E c \in Calls : Wake(c)

SpecConcurrent == InitConcurrent /\ [][NextConcurrent]_vars

(* The state of one call *)
CallState(c) ==
    <<pc[c], params[c], attempt[c], api_params[c], gets[c], response[c], exc[c],
      delay[c], sleeps[c], result[c], transport_faults[c]>>

(* C15: with two calls interleaved, a step of one call leaves the state of *)
(* the other call as it was; each call's retry counter equals the number   *)
(* of its own completed sleeps, its delays are those of its own faults     *)
(* (the n-th is 2, 4, 8 time units plus at most 10%), one per transport    *)
(* fault it has seen before its last attempt; and a call at the head of    *)
(* its loop can start its attempt whatever the other call is doing.        *)
C15_CallsAreIndependent ==
    /\ [][\A c \in callers : \A d \in callers \ {c} :
            CallState(c)' # CallState(c) => CallState(d)' = CallState(d)
         ]_vars
    /\ [](\A c \in Calls :
            LET ds == SleptAndPending(c) IN
            /\ attempt[c] = Len(sleeps[c])
            /\ gets[c] <= 4
            /\ Len(ds) <= transport_faults[c]
            /\ transport_faults[c] <= Len(ds) + 1
            /\ \A n \in 1..Len(ds) :
                 /\ ClaimedBaseDelay(n) <= ds[n]
                 /\ 10 * (ds[n] - ClaimedBaseDelay(n)) <= ClaimedBaseDelay(n)
            /\ pc[c] = "try" => ENABLED SendRequest(c))

(* Call 1 has used up its budget while call 2, still on its first attempt, *)
(* is in its first sleep                                                   *)
C15_Witness ==
    /\ callers = Calls
    /\ Done(1) /\ gets[1] = 4 /\ Len(sleeps[1]) = 3
    /\ pc[2] = "sleeping" /\ attempt[2] = 0 /\ gets[2] = 1
    /\ delay[2] = 2 * TicksPerUnit

-----------------------------------------------------------------------------
(* C16: from the call on, no step changes the caller's params dict; the    *)
(* function name, the API key and the client tag are in the parameters of  *)
(* the GET and not in the caller's dict, and so is an entitlement that the *)
(* caller's dict does not hold.                                            *)
InjectedKeys == {"function", "apikey", "source"}

C16_ParamsNeverMutated ==
    /\ [][\A c \in callers : pc[c] # "idle" => params'[c] = params[c]]_vars
    /\ [](\A c \in Calls :
            gets[c] > 0
            => /\ InjectedKeys \subseteq DOMAIN api_params[c]
               /\ InjectedKeys \cap DOMAIN params[c] = {}
               /\ \A k \in DOMAIN params[c] :
                    k \in DOMAIN api_params[c] /\ k # "entitlement"
                    => api_params[c][k] = params[c][k])

(* After two attempts the caller's dict still holds its empty entitlement, *)
(* which the copy sent has lost                                            *)
C16_Witness ==
    \E c \in callers :
        /\ Done(c) /\ gets[c] = 2
        /\ params[c] = [symbol |-> "IBM", entitlement |-> ""]
        /\ "entitlement" \notin DOMAIN api_params[c]
        /\ api_params[c]["apikey"] = "demo"

-----------------------------------------------------------------------------
(* C17: called with a start date later than the end date on a parseable    *)
(* table, the filter raises nothing and returns the header line alone.     *)
C17_ReversedRangeGivesEmptyTable ==
    ( /\ filter_pc = "done"
      /\ ParseableTable(csv_data)
      /\ DayOf(start_date) > DayOf(end_date) )
    => /\ filter_result = [kind |-> "return", exc |-> "none",
                           text |-> CsvText(<<csv_data.lines[1]>>, TRUE)]
       /\ filtered_index = <<>>

(* Range [2024-01-03, 2024-01-01] on a table whose rows all lie between *)
C17_Witness ==
    /\ filter_pc = "done"
    /\ start_date = DateTexts[3] /\ end_date = DateTexts[1]
    /\ Len(csv_data.lines) = 3
    /\ csv_data.lines[2][1] = DateTexts[2]
    /\ csv_data.lines[3][1] = DateTexts[1]
    /\ filter_result.kind = "return"
    /\ filter_result.text.lines = <<Header>>

-----------------------------------------------------------------------------
(* The retry controller when every step that can be taken is taken in the  *)
(* end: the program goes on running, every requests.get ends and every     *)
(* time.sleep returns.                                                     *)
(* The outcomes of requests.get, one of each way an attempt can end *)
LiveOutcomes ==
    FewOutcomes
    \cup { NetRaise("requests.ConnectionError"),
           NetResponse(304, CsvBody),
           NetResponse(200, JsonBody(PyScalar("int"))) }

NextLive ==
    \/ \E c \in Calls : Call(c)
    \/ \E c \in Calls : SendRequest(c)
    \/ \E c \in Calls : ReceiveResponseOf(c, LiveOutcomes)
    \/ \E c \in Calls : Wake(c)

Fairness ==
    \A c \in Calls :
        /\ WF_vars(SendRequest(c))
        /\ WF_vars(ReceiveResponseOf(c, LiveOutcomes))
        /\ WF_vars(Wake(c))

SpecLive == Init /\ [][NextLive]_vars /\ Fairness

(* C18: a call that has been made ends; when it has ended it has raised a  *)
(* fault or returned the body of its last attempt, which succeeded (never  *)
(* the None of a loop that ran out); and once it has ended it makes no     *)
(* attempt, sleeps no more and keeps its outcome.                          *)
C18_CallTerminatesWithOutcome ==
    /\ \A c \in Calls : (pc[c] # "idle") ~> (pc[c] = "done")
    /\ [](\A c \in Calls :
            pc[c] = "done"
            => \/ result[c].kind = "raise"
               \/ /\ result[c].kind = "return"
                  /\ response[c].kind = "response"
                  /\ LastOutcome(c) = Return(response[c].body)
                  /\ result[c].value = response[c].body
                  /\ result[c].value # PyNone)
    /\ [][\A c \in Calls :
            pc[c] = "done"
            => /\ pc'[c] = "done"
               /\ result'[c] = result[c]
               /\ gets'[c] = gets[c]
               /\ sleeps'[c] = sleeps[c]
               /\ delay'[c] = delay[c]
         ]_vars

(* A payload returned by the third attempt *)
C18_Witness ==
    \E c \in callers :
        /\ Done(c)
        /\ gets[c] = 3 /\ Len(sleeps[c]) = 2
        /\ result[c] = Return(CsvBody)

-----------------------------------------------------------------------------
(* Transport faults a call has seen on its attempts 1 to 3: a 4th attempt  *)
(* is made only after three, so a fourth fault is that of attempt 4.       *)
FaultsOnAttempts1To3(c) == Min(transport_faults[c], 3)

(* Attempts of a call: the iterations of its loop entered so far *)
Iterations(c) == IF pc[c] = "idle" THEN 0 ELSE attempt[c] + 1

(* C19 (as claimed): in every reachable state the completed sleeps of a    *)
(* call are at most 3 and as many as the transport faults it has seen on   *)
(* attempts 1 to 3, and when the call has ended they are one fewer than    *)
(* its attempts.                                                           *)
C19_CompletedSleepsEqualFaults ==
    \A c \in callers :
        /\ Len(sleeps[c]) <= 3
        /\ Len(sleeps[c]) = FaultsOnAttempts1To3(c)
        /\ Done(c) => Len(sleeps[c]) = Iterations(c) - 1

(* C19 (amended): in every reachable state the sleeps of a call, completed *)
(* or in progress, are at most 3 and as many as the transport faults it    *)
(* has seen on attempts 1 to 3; the completed ones are at most that many;  *)
(* and when the call has ended its completed sleeps are one fewer than its *)
(* attempts, so that no sleep follows the terminal attempt.                *)
C19_StartedSleepsEqualFaults ==
    \A c \in callers :
        /\ Len(SleptAndPending(c)) <= 3
        /\ Len(SleptAndPending(c)) = FaultsOnAttempts1To3(c)
        /\ Done(c) => /\ Len(sleeps[c]) = Iterations(c) - 1
                      /\ gets[c] > 0 => Len(sleeps[c]) = gets[c] - 1

(* The call has raised the fault of its 4th attempt after 3 sleeps *)
C19_Witness ==
    \E c \in callers :
        /\ Done(c)
        /\ transport_faults[c] = 4
        /\ Len(sleeps[c]) = 3
        /\ result[c] = Raise("requests.HTTPError")

-----------------------------------------------------------------------------
(* C20 (as claimed): after a response with a non-2xx status whose body is  *)
(* rate-limit-shaped, the call has not raised the rate-limit fault: it is  *)
(* sleeping or retrying, or it has ended on its 4th attempt by raising the *)
(* HTTP fault, a transport fault.                                          *)
C20_RateLimitOnlyOnHttpSuccess ==
    \A c \in callers :
        ( /\ response[c].kind = "response"
          /\ response[c].status \notin 200..299
          /\ RateLimitShapedBody(response[c].body) )
        => /\ result[c] # Raise("AlphaVantageRateLimitError")
           /\ Done(c) => ( /\ gets[c] = 4
                           /\ result[c] = Raise("requests.HTTPError")
                           /\ IsTransportFault(result[c].exc) )

====
